---- MODULE Spec2Model ----
(***************************************************************************)
(* helm-wrapper (src/main.go): a launcher that makes sure a versioned helm *)
(* binary is present in ${HOME}/.helm-wrapper/bin, downloading and         *)
(* extracting it on demand, optionally matching the version reported by a  *)
(* tiller in the cluster, and then runs it with the user's arguments.      *)
(*                                                                         *)
(* The state is the file system the program works on (the cache directory, *)
(* the files helm-{v} in it, the archives helm-{v}.tar.gz in the temporary *)
(* directory) and, for each running instance of the program, its position *)
(* in main and the locals of the function it is in.  Everything the        *)
(* program receives from outside (system call failures, the HTTP response, *)
(* the archive served, the cluster probe, the output and exit code of the  *)
(* helm binary) is an input chosen with \E.                                *)
(***************************************************************************)
EXTENDS Naturals, Sequences, FiniteSets

\* ------------------------------------------------------------------ bounds
MaxEntries == 2      \* tar entries in a served archive
MaxChildCode == 2    \* exit codes 0..MaxChildCode of the helm binary
MaxRuns == 2         \* successive runs of one instance

\* --------------------------------------------------------- program constants
DefaultVersion == "v2.16.7"
StatusOK == 200
FatalExit == 1

\* runtime.GOOS-runtime.GOARCH is fixed to one platform: the program only
\* compares the entry name with this string.
HelmPath == "linux-amd64/helm"

Instances == {"A", "B"}

\* What `helm version --server --template {{.Server.SemVer}}` may print.
ServerOutputs == {"v2.16.7", "v2.14.3"}
Versions == {DefaultVersion} \cup ServerOutputs

HttpStatuses == {StatusOK, 404, 500}
ChildCodes == 0..MaxChildCode

\* --------------------------------------------------------------- archives
\* A tar header as unTarZip looks at it: Typeflag = TypeReg or not, and Name.
Entries == [reg : BOOLEAN, path : {HelmPath, "linux-amd64/README.md"}]

EntrySeqs == UNION {[1..k -> Entries] : k \in 0..MaxEntries}

\* A served body: a gzip stream or not; the tar entries in it; whether the
\* tar stream ends properly (io.EOF) or breaks after the entries.
Garbage == [gz |-> FALSE, entries |-> <<>>, tarOk |-> FALSE]
Archives == {Garbage} \cup [gz : {TRUE}, entries : EntrySeqs, tarOk : BOOLEAN]

\* The archive of a helm release: the platform directory, then the binary.
Release == [gz |-> TRUE, tarOk |-> TRUE,
            entries |-> <<[reg |-> FALSE, path |-> "linux-amd64/README.md"],
                          [reg |-> TRUE, path |-> HelmPath]>>]

\* A file of the temporary directory, helm-{v}.tar.gz: `complete` is false
\* from os.Create until the io.Copy of the instance that created or truncated
\* it last (`owner`) has finished.
NoTmp == [exists |-> FALSE, arch |-> Garbage, complete |-> FALSE, owner |-> "A"]

\* A file of the cache directory, helm-{v}.
NoBin == [exists |-> FALSE, complete |-> FALSE, exec |-> FALSE, owner |-> "A"]

NoResp == [status |-> 0, body |-> Garbage]
NoChild == [started |-> FALSE, code |-> 0]
NoPrev == [ran |-> FALSE, bootOk |-> FALSE]

VARIABLES
    binDir,       \* the cache directory path: "absent", "dir" or "file"
    cache,        \* cache[v]: the file helm-{v} of the cache directory
    tmp,          \* tmp[v]: the file helm-{v}.tar.gz of os.TempDir()
    served,       \* the bodies get.helm.sh may answer a download with
    pc,           \* pc[p]: where instance p is
    ver,          \* ver[p]: the version of the cycle p is in (v, then server)
    cyc,          \* cyc[p]: 1 in main's first cycle (30-44), 2 in its second (51-66)
    server,       \* server[p]: main's `server`
    probe,        \* probe[p]: how checkTiller's query ended ("": not made yet)
    resp,         \* resp[p]: the response download got: status and body
    fh,           \* fh[p]: unTarZip's f: "closed", "linked" (the path still names
                  \*        the file it reads) or "orphan" (removed under it)
    orphan,       \* orphan[p]: what f reads once the file has been removed
    idx,          \* idx[p]: tar entries unTarZip has read
    opened,       \* opened[p]: the archive file as the last unTarZip's os.Open found
                  \*            it, until main makes its next call
    trace,        \* trace[p]: the calls main has made in this run, in order
    madeTmp,      \* madeTmp[p]: versions whose archive this run's download created
    exitCode,     \* exitCode[p]: the exit code of the run, once Terminated(p)
    launched,     \* launched[p]: the file the Launcher executed, as it was then
    child,        \* child[p]: what became of the command the Launcher ran
    runs,         \* runs[p]: runs of instance p started so far
    prev          \* prev[p]: summary of p's previous run

vars == <<binDir, cache, tmp, served, pc, ver, cyc, server, probe, resp, fh, orphan, idx, opened,
          trace, madeTmp, exitCode, launched, child, runs, prev>>

\* ---------------------------------------------------------------- helpers
\* A call main has made and how it returned: `status` is the HTTP status a
\* download got (0: none), `found` the boolean checkLocal returned.
Call(op, v, err, status, found) ==
    [op |-> op, ver |-> v, err |-> err, status |-> status, found |-> found]

Ops(p) == {trace[p][i].op : i \in 1..Len(trace[p])}

Last(p) == trace[p][Len(trace[p])]

Terminated(p) == pc[p] \in {"done", "fatal"}

\* checkLocal's os.Stat(binDir/helm-v) finds the file.
FileExists(v) == binDir = "dir" /\ cache[v].exists

StatusNotServerError(s) == s # 500

\* download's `resp.StatusCode != http.StatusOK` test, negated.
StatusAccepted(s) == s = StatusOK

EntryNamedHelm(e) == e.path = HelmPath

\* unTarZip's two `continue` tests, negated: the entry is extracted.
EntryMatches(e) == e.reg /\ e.path = HelmPath

SecondCycleAlways(v, s) == TRUE

\* main's `if v != server`.
SecondCycleNeeded(v, s) == v # s

WrapperExitsZero(c) == 0

\* main after cmd.CombinedOutput(): err is non-nil when the command could not
\* be started or exited non-zero, and then os.Exit(1); else main returns.
WrapperExit(c) == IF ~c.started \/ c.code # 0 THEN 1 ELSE 0

\* How checkTiller's query can end: one of its four errors (207-230), no
\* tiller pod (232-234), or a tiller pod (236).
ProbeErrors == {"homedirErr", "kubeconfigErr", "clientErr", "listErr"}
ProbeResults == ProbeErrors \cup {"none", "found"}

ProbeErrorSwallowed(r) == FALSE

\* serverVersion's `if err != nil { return "", err }` after checkTiller, and
\* main's log.Fatalln on it.
ProbeFailed(r) == r \in ProbeErrors

\* Where main goes after a cycle (checkLocal found the file, or unTarZip
\* returned nil).
AfterCycle(p) == IF cyc[p] = 1 THEN "serverVersion" ELSE "launch"

\* What unTarZip's f reads now.
Content(p) == IF fh[p] = "orphan" THEN orphan[p] ELSE tmp[ver[p]]

LogCall(p, c) == trace' = [trace EXCEPT ![p] = Append(@, c)]

Log(p, op, v, err, status) == LogCall(p, Call(op, v, err, status, FALSE))

\* log.Fatalln(err): the call is logged as failed and the process exits 1.
Fatal(p, op, status) ==
    /\ pc' = [pc EXCEPT ![p] = "fatal"]
    /\ exitCode' = [exitCode EXCEPT ![p] = FatalExit]
    /\ Log(p, op, ver[p], TRUE, status)

\* unTarZip's deferred os.Remove and f.Close: the path is unlinked; another
\* instance that has the file open keeps reading what it held.
RemoveTmp(p) ==
    /\ tmp' = [tmp EXCEPT ![ver[p]] = NoTmp]
    /\ fh' = [q \in Instances |->
                IF q = p THEN "closed"
                ELSE IF fh[q] = "linked" /\ ver[q] = ver[p] THEN "orphan"
                ELSE fh[q]]
    /\ orphan' = [q \in Instances |->
                IF q # p /\ fh[q] = "linked" /\ ver[q] = ver[p]
                THEN tmp[ver[p]] ELSE orphan[q]]

\* ------------------------------------------------------------------- init
InitFor(active, bodies) ==
    /\ served = bodies
    /\ binDir \in {"absent", "dir", "file"}
    /\ cache = [v \in Versions |-> NoBin]
    /\ tmp = [v \in Versions |-> NoTmp]
    /\ pc = [p \in Instances |-> IF p \in active THEN "dirs" ELSE "off"]
    /\ ver = [p \in Instances |-> DefaultVersion]
    /\ cyc = [p \in Instances |-> 1]
    /\ server = [p \in Instances |-> DefaultVersion]
    /\ probe = [p \in Instances |-> ""]
    /\ resp = [p \in Instances |-> NoResp]
    /\ fh = [p \in Instances |-> "closed"]
    /\ orphan = [p \in Instances |-> NoTmp]
    /\ idx = [p \in Instances |-> 0]
    /\ opened = [p \in Instances |-> NoTmp]
    /\ trace = [p \in Instances |-> <<>>]
    /\ madeTmp = [p \in Instances |-> {}]
    /\ exitCode = [p \in Instances |-> 0]
    /\ launched = [p \in Instances |-> NoBin]
    /\ child = [p \in Instances |-> NoChild]
    /\ prev = [p \in Instances |-> NoPrev]

Init ==
    /\ InitFor({"A"}, Archives)
    /\ runs = [p \in Instances |-> 1]

\* ------------------------------------------------------------ main: dirs
\* dirs(binDir), main 26-28 and dirs 78-93.
DirsExists(p) ==
    /\ pc[p] = "dirs"
    /\ binDir # "absent"
    /\ pc' = [pc EXCEPT ![p] = "checkLocal"]
    /\ Log(p, "dirs", ver[p], FALSE, 0)
    /\ UNCHANGED <<served, binDir, cache, tmp, ver, cyc, server, probe, resp, fh, orphan, idx, opened,
                   madeTmp, exitCode, launched, child, runs, prev>>

DirsMkdir(p) ==
    /\ pc[p] = "dirs"
    /\ binDir = "absent"
    /\ binDir' = "dir"
    /\ pc' = [pc EXCEPT ![p] = "checkLocal"]
    /\ Log(p, "dirs", ver[p], FALSE, 0)
    /\ UNCHANGED <<served, cache, tmp, ver, cyc, server, probe, resp, fh, orphan, idx, opened,
                   madeTmp, exitCode, launched, child, runs, prev>>

\* os.Stat fails otherwise than with "not exist", or os.MkdirAll fails.
DirsFail(p) ==
    /\ pc[p] = "dirs"
    /\ Fatal(p, "dirs", 0)
    /\ UNCHANGED <<served, binDir, cache, tmp, ver, cyc, server, probe, resp, fh, orphan, idx, opened,
                   madeTmp, launched, child, runs, prev>>

\* ------------------------------------------------------ main: checkLocal
\* checkLocal(v, binDir), main 31-36 and 52-57, checkLocal 95-106.  A cache
\* path that is a file makes os.Stat fail with ENOTDIR, which is not
\* "not exist".
CheckLocalFound(p) ==
    /\ pc[p] = "checkLocal"
    /\ FileExists(ver[p])
    /\ pc' = [pc EXCEPT ![p] = AfterCycle(p)]
    /\ LogCall(p, Call("checkLocal", ver[p], FALSE, 0, TRUE))
    /\ UNCHANGED <<served, binDir, cache, tmp, ver, cyc, server, probe, resp, fh, orphan, idx, opened,
                   madeTmp, exitCode, launched, child, runs, prev>>

CheckLocalAbsent(p) ==
    /\ pc[p] = "checkLocal"
    /\ binDir # "file"
    /\ ~FileExists(ver[p])
    /\ pc' = [pc EXCEPT ![p] = "download"]
    /\ Log(p, "checkLocal", ver[p], FALSE, 0)
    /\ UNCHANGED <<served, binDir, cache, tmp, ver, cyc, server, probe, resp, fh, orphan, idx, opened,
                   madeTmp, exitCode, launched, child, runs, prev>>

CheckLocalFail(p) ==
    /\ pc[p] = "checkLocal"
    /\ Fatal(p, "checkLocal", 0)
    /\ UNCHANGED <<served, binDir, cache, tmp, ver, cyc, server, probe, resp, fh, orphan, idx, opened,
                   madeTmp, launched, child, runs, prev>>

\* -------------------------------------------------------- main: download
\* download(v), main 37-39 and 58-60, download 108-134.
\* c.Get fails (transport error, timeout): 114-117.
DownloadNetErr(p) ==
    /\ pc[p] = "download"
    /\ Fatal(p, "download", 0)
    /\ UNCHANGED <<served, binDir, cache, tmp, ver, cyc, server, probe, resp, fh, orphan, idx, opened,
                   madeTmp, launched, child, runs, prev>>

\* The response status is not accepted: 120-122.
DownloadBadStatus(p) ==
    /\ pc[p] = "download"
    /\ \E s \in HttpStatuses :
          /\ ~StatusAccepted(s)
          /\ Fatal(p, "download", s)
    /\ UNCHANGED <<served, binDir, cache, tmp, ver, cyc, server, probe, resp, fh, orphan, idx, opened,
                   madeTmp, launched, child, runs, prev>>

\* The status is accepted and os.Create of the archive fails: 124-127.
DownloadCreateFail(p) ==
    /\ pc[p] = "download"
    /\ \E s \in HttpStatuses :
          /\ StatusAccepted(s)
          /\ Fatal(p, "download", s)
    /\ UNCHANGED <<served, binDir, cache, tmp, ver, cyc, server, probe, resp, fh, orphan, idx, opened,
                   madeTmp, launched, child, runs, prev>>

\* The status is accepted and os.Create of the archive succeeds (an existing
\* file is truncated in place); io.Copy is under way: 124-129.
DownloadCreate(p) ==
    /\ pc[p] = "download"
    /\ \E s \in HttpStatuses, a \in served :
          /\ StatusAccepted(s)
          /\ tmp' = [tmp EXCEPT ![ver[p]] =
                       [exists |-> TRUE, arch |-> a, complete |-> FALSE, owner |-> p]]
          /\ resp' = [resp EXCEPT ![p] = [status |-> s, body |-> a]]
    /\ madeTmp' = [madeTmp EXCEPT ![p] = @ \cup {ver[p]}]
    /\ pc' = [pc EXCEPT ![p] = "downloadCopy"]
    /\ UNCHANGED <<served, binDir, cache, ver, cyc, server, probe, fh, orphan, idx, opened,
                   trace, exitCode, launched, child, runs, prev>>

\* io.Copy(outFile, resp.Body) returned nil: 129-133.  The file is whole if
\* nobody truncated or removed it since this instance created it.
DownloadCopyDone(p) ==
    /\ pc[p] = "downloadCopy"
    /\ tmp' = [tmp EXCEPT ![ver[p]] =
                 IF @.exists /\ @.owner = p THEN [@ EXCEPT !.complete = TRUE] ELSE @]
    /\ pc' = [pc EXCEPT ![p] = "unTarZip"]
    /\ Log(p, "download", ver[p], FALSE, resp[p].status)
    /\ UNCHANGED <<served, binDir, cache, ver, cyc, server, probe, resp, fh, orphan, idx, opened,
                   madeTmp, exitCode, launched, child, runs, prev>>

\* io.Copy failed (connection reset, timeout, disk full): 129-131.
DownloadCopyFail(p) ==
    /\ pc[p] = "downloadCopy"
    /\ Fatal(p, "download", resp[p].status)
    /\ UNCHANGED <<served, binDir, cache, tmp, ver, cyc, server, probe, resp, fh, orphan, idx, opened,
                   madeTmp, launched, child, runs, prev>>
\* -------------------------------------------------------- main: unTarZip
\* unTarZip(v, binDir), main 41-43 and 62-64, unTarZip 136-186.
\* An error after os.Open succeeded returns through the deferred os.Remove.
UnTarReturnErr(p) ==
    /\ RemoveTmp(p)
    /\ Fatal(p, "unTarZip", 0)

\* os.Open fails: 137-140.  Nothing is deferred yet.
UnTarOpenFail(p) ==
    /\ pc[p] = "unTarZip"
    /\ opened' = [opened EXCEPT ![p] = NoTmp]
    /\ Fatal(p, "unTarZip", 0)
    /\ UNCHANGED <<served, binDir, cache, tmp, ver, cyc, server, probe, resp, fh, orphan, idx,
                   madeTmp, launched, child, runs, prev>>

\* os.Open succeeds and gzip.NewReader reads a gzip header: 137-150.
UnTarOpen(p) ==
    /\ pc[p] = "unTarZip"
    /\ tmp[ver[p]].exists
    /\ tmp[ver[p]].arch.gz
    /\ fh' = [fh EXCEPT ![p] = "linked"]
    /\ idx' = [idx EXCEPT ![p] = 0]
    /\ opened' = [opened EXCEPT ![p] = tmp[ver[p]]]
    /\ pc' = [pc EXCEPT ![p] = "tarNext"]
    /\ UNCHANGED <<served, binDir, cache, tmp, ver, cyc, server, probe, resp, orphan, trace,
                   madeTmp, exitCode, launched, child, runs, prev>>

\* os.Open succeeds and gzip.NewReader fails: 144-147.  The file is no gzip
\* stream, or it is still being written and the header is not there yet.
UnTarGzipFail(p) ==
    /\ pc[p] = "unTarZip"
    /\ tmp[ver[p]].exists
    /\ ~tmp[ver[p]].arch.gz \/ ~tmp[ver[p]].complete
    /\ opened' = [opened EXCEPT ![p] = tmp[ver[p]]]
    /\ UnTarReturnErr(p)
    /\ UNCHANGED <<served, binDir, cache, ver, cyc, server, probe, resp, idx,
                   madeTmp, launched, child, runs, prev>>

\* tr.Next returns a header that is skipped: 152-168.
TarNextSkip(p) ==
    /\ pc[p] = "tarNext"
    /\ Content(p).arch.gz
    /\ idx[p] < Len(Content(p).arch.entries)
    /\ ~EntryMatches(Content(p).arch.entries[idx[p] + 1])
    /\ idx' = [idx EXCEPT ![p] = @ + 1]
    /\ UNCHANGED <<served, binDir, cache, tmp, pc, ver, cyc, server, probe, resp, fh, orphan, opened,
                   trace, madeTmp, exitCode, launched, child, runs, prev>>

\* tr.Next returns the header of the helm binary and os.Create makes (or
\* truncates, keeping its mode) the file helm-{v}: 152-173.
TarNextCreate(p) ==
    /\ pc[p] = "tarNext"
    /\ Content(p).arch.gz
    /\ idx[p] < Len(Content(p).arch.entries)
    /\ EntryMatches(Content(p).arch.entries[idx[p] + 1])
    /\ binDir = "dir"
    /\ cache' = [cache EXCEPT ![ver[p]] =
                   [exists |-> TRUE, complete |-> FALSE,
                    exec |-> @.exists /\ @.exec, owner |-> p]]
    /\ pc' = [pc EXCEPT ![p] = "copy"]
    /\ UNCHANGED <<served, binDir, tmp, ver, cyc, server, probe, resp, fh, orphan, idx, opened,
                   trace, madeTmp, exitCode, launched, child, runs, prev>>

\* tr.Next returns the header of the helm binary and os.Create fails: 170-173.
TarNextCreateFail(p) ==
    /\ pc[p] = "tarNext"
    /\ Content(p).arch.gz
    /\ idx[p] < Len(Content(p).arch.entries)
    /\ EntryMatches(Content(p).arch.entries[idx[p] + 1])
    /\ UnTarReturnErr(p)
    /\ UNCHANGED <<served, binDir, cache, ver, cyc, server, probe, resp, idx, opened,
                   madeTmp, launched, child, runs, prev>>

\* tr.Next returns io.EOF and unTarZip returns nil: 153-155, 185.
TarNextEOF(p) ==
    /\ pc[p] = "tarNext"
    /\ Content(p).arch.gz /\ Content(p).arch.tarOk /\ Content(p).complete
    /\ idx[p] = Len(Content(p).arch.entries)
    /\ RemoveTmp(p)
    /\ pc' = [pc EXCEPT ![p] = AfterCycle(p)]
    /\ Log(p, "unTarZip", ver[p], FALSE, 0)
    /\ UNCHANGED <<served, binDir, cache, ver, cyc, server, probe, resp, idx, opened,
                   madeTmp, exitCode, launched, child, runs, prev>>

\* tr.Next returns an error: 156-158.  The stream breaks where the entries
\* end, or the file is being rewritten under the reader.
TarNextErr(p) ==
    /\ pc[p] = "tarNext"
    /\ \/ ~Content(p).arch.gz
       \/ ~Content(p).complete
       \/ idx[p] >= Len(Content(p).arch.entries) /\ ~Content(p).arch.tarOk
       \/ idx[p] > Len(Content(p).arch.entries)
    /\ UnTarReturnErr(p)
    /\ UNCHANGED <<served, binDir, cache, ver, cyc, server, probe, resp, idx, opened,
                   madeTmp, launched, child, runs, prev>>

CopyStopsShort(p) ==
    /\ pc[p] = "copy"
    /\ pc' = [pc EXCEPT ![p] = "chmod"]
    /\ UNCHANGED <<served, binDir, cache, tmp, ver, cyc, server, probe, resp, fh, orphan,
                   idx, opened, trace, madeTmp, exitCode, launched, child, runs, prev>>

\* io.Copy(ofile, tr) returned nil: 176-178.  The file is whole if nobody
\* truncated it since this instance created it.
CopyDone(p) ==
    /\ pc[p] = "copy"
    /\ cache' = [cache EXCEPT ![ver[p]] =
                   IF @.owner = p THEN [@ EXCEPT !.complete = TRUE] ELSE @]
    /\ pc' = [pc EXCEPT ![p] = "chmod"]
    /\ UNCHANGED <<served, binDir, tmp, ver, cyc, server, probe, resp, fh, orphan, idx, opened,
                   trace, madeTmp, exitCode, launched, child, runs, prev>>

\* io.Copy(ofile, tr) failed: 176-178.  What was written stays in the cache.
CopyFail(p) ==
    /\ pc[p] = "copy"
    /\ UnTarReturnErr(p)
    /\ UNCHANGED <<served, binDir, cache, ver, cyc, server, probe, resp, idx, opened,
                   madeTmp, launched, child, runs, prev>>

\* os.Chmod(path, 0755) succeeded; the loop goes on: 180-183.
ChmodDone(p) ==
    /\ pc[p] = "chmod"
    /\ cache' = [cache EXCEPT ![ver[p]].exec = TRUE]
    /\ idx' = [idx EXCEPT ![p] = @ + 1]
    /\ pc' = [pc EXCEPT ![p] = "tarNext"]
    /\ UNCHANGED <<served, binDir, tmp, ver, cyc, server, probe, resp, fh, orphan, opened,
                   trace, madeTmp, exitCode, launched, child, runs, prev>>

\* os.Chmod failed: 180-182.
ChmodFail(p) ==
    /\ pc[p] = "chmod"
    /\ UnTarReturnErr(p)
    /\ UNCHANGED <<served, binDir, cache, ver, cyc, server, probe, resp, idx, opened,
                   madeTmp, launched, child, runs, prev>>
\* --------------------------------------------------- main: serverVersion
\* The binary at binDir/helm-{v} can be started.
Runnable(v) == binDir = "dir" /\ cache[v].exists /\ cache[v].exec

\* main 51-66 once serverVersion has returned s: the second cycle, for s, if
\* s differs from v; else straight to the Launcher.
AfterServerVersion(p, s) ==
    IF SecondCycleNeeded(DefaultVersion, s)
    THEN /\ pc' = [pc EXCEPT ![p] = "checkLocal"]
         /\ ver' = [ver EXCEPT ![p] = s]
         /\ cyc' = [cyc EXCEPT ![p] = 2]
    ELSE /\ pc' = [pc EXCEPT ![p] = "launch"]
         /\ UNCHANGED <<ver, cyc>>

\* serverVersion(v, binDir) up to the result of checkTiller: main 46-49,
\* serverVersion 188-196, checkTiller 206-237.  An error of the query is
\* returned to main, which exits; no pod means the default version.  The
\* locals of the cycle before (download's response, unTarZip's file) are gone.
ServerVersionProbe(p) ==
    /\ pc[p] = "serverVersion"
    /\ \E r \in ProbeResults :
          /\ probe' = [probe EXCEPT ![p] = r]
          /\ IF ProbeFailed(r)
             THEN /\ Fatal(p, "serverVersion", 0)
                  /\ UNCHANGED <<server, ver, cyc>>
             ELSE IF r = "found"
             THEN /\ pc' = [pc EXCEPT ![p] = "srvExec"]
                  /\ UNCHANGED <<server, ver, cyc, trace, exitCode>>
             ELSE /\ server' = [server EXCEPT ![p] = DefaultVersion]
                  /\ AfterServerVersion(p, DefaultVersion)
                  /\ Log(p, "serverVersion", ver[p], FALSE, 0)
                  /\ UNCHANGED <<exitCode>>
    /\ resp' = [resp EXCEPT ![p] = NoResp]
    /\ opened' = [opened EXCEPT ![p] = NoTmp]
    /\ UNCHANGED <<served, binDir, cache, tmp, fh, orphan, idx,
                   madeTmp, launched, child, runs, prev>>

\* `helm-{v} version --server --template {{.Server.SemVer}}` cannot be
\* started or exits non-zero: 198-201.
SrvExecFail(p) ==
    /\ pc[p] = "srvExec"
    /\ Fatal(p, "serverVersion", 0)
    /\ UNCHANGED <<served, binDir, cache, tmp, ver, cyc, server, probe, resp, fh, orphan, idx,
                   opened, madeTmp, launched, child, runs, prev>>

\* The command prints o and exits 0; string(out) is returned as it is: 198-203.
\* Then main 51: a second cycle for `server` if it differs from v.
SrvExecOut(p) ==
    /\ pc[p] = "srvExec"
    /\ Runnable(DefaultVersion)
    /\ \E o \in ServerOutputs :
          /\ server' = [server EXCEPT ![p] = o]
          /\ AfterServerVersion(p, o)
    /\ Log(p, "serverVersion", ver[p], FALSE, 0)
    /\ UNCHANGED <<served, binDir, cache, tmp, probe, resp, fh, orphan, idx,
                   opened, madeTmp, exitCode, launched, child, runs, prev>>

\* ---------------------------------------------------------- main: launch
LaunchDefault(p) == DefaultVersion

\* The version in the path main builds for exec.Command: `server`.
LaunchVersion(p) == server[p]

\* exec.Command(binDir/helm-{server}, os.Args[1:]...).CombinedOutput(),
\* main 68-76.  The command cannot be started: the file is missing, not
\* executable, or not a whole binary.
LaunchExecFail(p) ==
    /\ pc[p] = "launch"
    /\ ~Runnable(LaunchVersion(p)) \/ ~cache[LaunchVersion(p)].complete
    /\ launched' = [launched EXCEPT ![p] = cache[LaunchVersion(p)]]
    /\ child' = [child EXCEPT ![p] = NoChild]
    /\ exitCode' = [exitCode EXCEPT ![p] = WrapperExit(NoChild)]
    /\ pc' = [pc EXCEPT ![p] = "done"]
    /\ Log(p, "launch", LaunchVersion(p), TRUE, 0)
    /\ resp' = [resp EXCEPT ![p] = NoResp]
    /\ opened' = [opened EXCEPT ![p] = NoTmp]
    /\ UNCHANGED <<served, binDir, cache, tmp, ver, cyc, server, probe, fh, orphan, idx,
                   madeTmp, runs, prev>>

\* The command runs and exits with code c.
LaunchRun(p) ==
    /\ pc[p] = "launch"
    /\ Runnable(LaunchVersion(p))
    /\ \E c \in ChildCodes :
          /\ child' = [child EXCEPT ![p] = [started |-> TRUE, code |-> c]]
          /\ exitCode' = [exitCode EXCEPT ![p] = WrapperExit([started |-> TRUE, code |-> c])]
          /\ Log(p, "launch", LaunchVersion(p), c # 0, 0)
    /\ launched' = [launched EXCEPT ![p] = cache[LaunchVersion(p)]]
    /\ pc' = [pc EXCEPT ![p] = "done"]
    /\ resp' = [resp EXCEPT ![p] = NoResp]
    /\ opened' = [opened EXCEPT ![p] = NoTmp]
    /\ UNCHANGED <<served, binDir, cache, tmp, ver, cyc, server, probe, fh, orphan, idx,
                   madeTmp, runs, prev>>

\* ------------------------------------------------------------- next run
\* The program is started again after a run has ended; the file system is
\* what the ended run left.
Restart(p) ==
    /\ Terminated(p)
    /\ runs[p] < MaxRuns
    /\ runs' = [runs EXCEPT ![p] = @ + 1]
    /\ prev' = [prev EXCEPT ![p] = [ran |-> TRUE, bootOk |-> "launch" \in Ops(p)]]
    /\ pc' = [pc EXCEPT ![p] = "dirs"]
    /\ ver' = [ver EXCEPT ![p] = DefaultVersion]
    /\ cyc' = [cyc EXCEPT ![p] = 1]
    /\ server' = [server EXCEPT ![p] = DefaultVersion]
    /\ probe' = [probe EXCEPT ![p] = ""]
    /\ resp' = [resp EXCEPT ![p] = NoResp]
    /\ idx' = [idx EXCEPT ![p] = 0]
    /\ opened' = [opened EXCEPT ![p] = NoTmp]
    /\ trace' = [trace EXCEPT ![p] = <<>>]
    /\ madeTmp' = [madeTmp EXCEPT ![p] = {}]
    /\ exitCode' = [exitCode EXCEPT ![p] = 0]
    /\ launched' = [launched EXCEPT ![p] = NoBin]
    /\ child' = [child EXCEPT ![p] = NoChild]
    /\ UNCHANGED <<served, binDir, cache, tmp, fh, orphan>>

\* ------------------------------------------------------- specifications
Step(p) ==
    \/ DirsExists(p) \/ DirsMkdir(p) \/ DirsFail(p)
    \/ CheckLocalFound(p) \/ CheckLocalAbsent(p) \/ CheckLocalFail(p)
    \/ DownloadNetErr(p) \/ DownloadBadStatus(p) \/ DownloadCreateFail(p)
    \/ DownloadCreate(p) \/ DownloadCopyDone(p) \/ DownloadCopyFail(p)
    \/ UnTarOpenFail(p) \/ UnTarOpen(p) \/ UnTarGzipFail(p)
    \/ TarNextSkip(p) \/ TarNextCreate(p) \/ TarNextCreateFail(p)
    \/ TarNextEOF(p) \/ TarNextErr(p)
    \/ CopyDone(p) \/ CopyFail(p) \/ ChmodDone(p) \/ ChmodFail(p)
    \/ ServerVersionProbe(p) \/ SrvExecFail(p) \/ SrvExecOut(p)
    \/ LaunchExecFail(p) \/ LaunchRun(p)

\* One instance of the program, run again and again.
Next == \E p \in Instances : Step(p) \/ Restart(p)

Spec == Init /\ [][Next]_vars

\* Two instances of the program started on the same cache directory; the
\* download endpoint serves the release archive.
InitConc ==
    /\ InitFor(Instances, {Release})
    /\ runs = [p \in Instances |-> 1]

NextConc == \E p \in Instances : Step(p)

SpecConc == InitConc /\ [][NextConc]_vars
\* ================================================================ claims
Idx(p) == 1..Len(trace[p])

\* The first call of `op` for version v in p's run, 0 if there is none.
At(p, op, v) ==
    IF \E i \in Idx(p) : trace[p][i].op = op /\ trace[p][i].ver = v
    THEN CHOOSE i \in Idx(p) :
            /\ trace[p][i].op = op /\ trace[p][i].ver = v
            /\ \A j \in Idx(p) : trace[p][j].op = op /\ trace[p][j].ver = v => i <= j
    ELSE 0

\* download(v) and then unTarZip(v) have just returned nil.
JustExtracted(p) ==
    /\ Len(trace[p]) >= 2
    /\ Last(p).op = "unTarZip" /\ ~Last(p).err
    /\ trace[p][Len(trace[p]) - 1].op = "download"
    /\ ~trace[p][Len(trace[p]) - 1].err
    /\ trace[p][Len(trace[p]) - 1].ver = Last(p).ver

\* C1: after download(v) and unTarZip(v, binDir) have both returned without
\* error, checkLocal(v, binDir) reports true: helm-{v} is in the cache.
C1_FetchExtractThenPresent ==
    \A p \in Instances : JustExtracted(p) => FileExists(Last(p).ver)

\* C2, as claimed: when the cluster probe fails, the run is not aborted; it
\* goes on to the Launcher with the default version.
C2_ProbeErrorFallsBack ==
    \A p \in Instances :
        probe[p] \in ProbeErrors =>
            /\ pc[p] \in {"launch", "done"}
            /\ server[p] = DefaultVersion

\* C2, amended: when the cluster probe fails, serverVersion returns the
\* error and the run is aborted: it exits non-zero, serverVersion is the last
\* call it made, and the Launcher does not run.
C2_ProbeErrorIsFatal ==
    \A p \in Instances :
        probe[p] \in ProbeErrors =>
            /\ pc[p] = "fatal"
            /\ exitCode[p] # 0
            /\ Last(p) = Call("serverVersion", DefaultVersion, TRUE, 0, FALSE)
            /\ "launch" \notin Ops(p)

C2_Witness ==
    \E p \in Instances : probe[p] = "kubeconfigErr" /\ pc[p] = "fatal"

C4_NoArchiveLeftAtExit ==
    \A p \in Instances :
        Terminated(p) => \A v \in madeTmp[p] : ~tmp[v].exists

\* C5: a run that follows a run whose bootstrap completed without error
\* makes no call to download for the requested version.
C5_SecondRunNoDownload ==
    \A p \in Instances :
        prev[p].ran /\ prev[p].bootOk => At(p, "download", DefaultVersion) = 0

\* A download of p's run that was answered with a status other than 200.
Refused(p, i) ==
    /\ trace[p][i].op = "download"
    /\ trace[p][i].status \notin {0, StatusOK}

C6_RefusedIsFatal ==
    \A p \in Instances : \A i \in Idx(p) :
        Refused(p, i) =>
            /\ trace[p][i].err
            /\ i = Len(trace[p])
            /\ pc[p] = "fatal"
            /\ exitCode[p] # 0
            /\ "launch" \notin Ops(p)
            /\ trace[p][i].ver \notin madeTmp[p]
            /\ ~cache[trace[p][i].ver].exists

C6_RefusedStep ==
    \A p \in Instances :
        (pc[p] = "download" /\ pc'[p] # "download" /\ Refused(p, Len(trace[p]))')
            => tmp' = tmp /\ cache' = cache

\* C6: a download answered with a status other than 200 returns an error;
\* the call creates no archive in the temporary directory and no file
\* helm-{v} in the cache, and the run ends there with a non-zero exit,
\* before the Launcher.
C6_Non200Fails == [] C6_RefusedIsFatal /\ [][C6_RefusedStep]_vars

C6_Witness ==
    \E p \in Instances :
        /\ pc[p] = "fatal" /\ cyc[p] = 2
        /\ Last(p).op = "download" /\ Last(p).status = 404

\* The Launcher has run in p's run.
Launched(p) == pc[p] = "done" /\ Last(p).op = "launch"

\* The cycle main ran for version s: checkLocal(s) after serverVersion, then
\* download(s) and unTarZip(s) exactly when checkLocal reported false.
SecondCycleRan(p, s) ==
    LET c == At(p, "checkLocal", s)
        d == At(p, "download", s)
        u == At(p, "unTarZip", s)
    IN  /\ c = At(p, "serverVersion", DefaultVersion) + 1
        /\ c > 1
        /\ ~trace[p][c].err
        /\ IF trace[p][c].found
           THEN d = 0 /\ u = 0 /\ Len(trace[p]) = c + 1
           ELSE /\ d = c + 1 /\ ~trace[p][d].err
                /\ u = c + 2 /\ ~trace[p][u].err
                /\ Len(trace[p]) = c + 3

\* C7: when the Launcher runs and the probe found a tiller whose reported
\* version s is not the default, main has run a cycle for s (download and
\* unTarZip only if helm-{s} was absent) and the Launcher executes helm-{s};
\* when the probe found no tiller, the Launcher executes helm-{default} and
\* no call was made for any other version.
C7_LaunchesEffectiveVersion ==
    \A p \in Instances :
        Launched(p) =>
            /\ (probe[p] = "found" /\ server[p] # DefaultVersion) =>
                   /\ Last(p).ver = server[p]
                   /\ SecondCycleRan(p, server[p])
            /\ probe[p] = "none" =>
                   /\ Last(p).ver = DefaultVersion
                   /\ \A i \in Idx(p) : trace[p][i].ver = DefaultVersion
                   /\ Last(p) = trace[p][At(p, "serverVersion", DefaultVersion) + 1]

C7_Witness ==
    \E p \in Instances :
        /\ Launched(p) /\ child[p].started
        /\ probe[p] = "found" /\ server[p] # DefaultVersion
        /\ At(p, "download", server[p]) # 0

\* The place of p's i-th call in main: 1 dirs, 2-4 the cycle for v,
\* 5 serverVersion, 6-8 the cycle for server, 9 the Launcher.
Rank(p, i) ==
    LET sv == At(p, "serverVersion", DefaultVersion)
        second == sv # 0 /\ i > sv
        op == trace[p][i].op
    IN  CASE op = "dirs" -> 1
          [] op = "checkLocal" -> IF second THEN 6 ELSE 2
          [] op = "download" -> IF second THEN 7 ELSE 3
          [] op = "unTarZip" -> IF second THEN 8 ELSE 4
          [] op = "serverVersion" -> 5
          [] op = "launch" -> 9

\* Call e may directly follow call d in main.
Follows(d, e) ==
    /\ ~d.err
    /\ CASE e.op = "dirs" -> FALSE
         [] e.op = "checkLocal" -> d.op \in {"dirs", "serverVersion"}
         [] e.op = "download" -> d.op = "checkLocal" /\ ~d.found /\ d.ver = e.ver
         [] e.op = "unTarZip" -> d.op = "download" /\ d.ver = e.ver
         [] e.op = "serverVersion" ->
                \/ d.op = "checkLocal" /\ d.found
                \/ d.op = "unTarZip"
         [] e.op = "launch" ->
                \/ d.op = "checkLocal" /\ d.found
                \/ d.op = "unTarZip"
                \/ d.op = "serverVersion"

\* C8: the calls of a run are made in main's order, each at most once for a
\* version, the second cycle only for a version other than the default; a
\* call that returns an error is the last call of the run, which then has
\* ended with a non-zero exit.
C8_FailFastPipeline ==
    \A p \in Instances :
        /\ \A i, j \in Idx(p) : i < j => Rank(p, i) < Rank(p, j)
        /\ \A i, j \in Idx(p) :
               (i # j /\ trace[p][i].op = trace[p][j].op) =>
                   trace[p][i].ver # trace[p][j].ver
        /\ \A i \in Idx(p) :
               /\ Rank(p, i) <= 5 => trace[p][i].ver = DefaultVersion
               /\ Rank(p, i) > 5 => trace[p][i].ver = server[p]
               /\ i = 1 => trace[p][i].op = "dirs"
               /\ i > 1 => Follows(trace[p][i - 1], trace[p][i])
               /\ trace[p][i].err =>
                      /\ i = Len(trace[p])
                      /\ Terminated(p)
                      /\ exitCode[p] # 0
        /\ pc[p] = "fatal" => Len(trace[p]) > 0 /\ Last(p).err

C8_Witness ==
    \E p \in Instances :
        /\ pc[p] = "fatal" /\ cyc[p] = 2
        /\ Last(p).op = "unTarZip" /\ Len(trace[p]) = 8

\* f is a whole, well-formed archive with no regular-file entry named
\* {os}-{arch}/helm.
NoMatchArchive(f) ==
    /\ f.exists /\ f.complete /\ f.arch.gz /\ f.arch.tarOk
    /\ \A i \in 1..Len(f.arch.entries) :
           ~(f.arch.entries[i].reg /\ f.arch.entries[i].path = HelmPath)

InUnTarZip(p) == pc[p] \in {"unTarZip", "tarNext", "copy", "chmod"}

\* The archive unTarZip is about to open, or has opened.
Reading(p) == IF pc[p] = "unTarZip" THEN tmp[ver[p]] ELSE opened[p]

C9_ReturnsNilNoFile ==
    \A p \in Instances :
        (Len(trace[p]) > 0 /\ Last(p).op = "unTarZip" /\ NoMatchArchive(opened[p])) =>
            /\ ~Last(p).err
            /\ ~tmp[Last(p).ver].exists
            /\ ~cache[Last(p).ver].exists

C9_CacheUntouched ==
    \A p \in Instances :
        (InUnTarZip(p) /\ NoMatchArchive(Reading(p))) => cache' = cache

\* C9: on an archive that is read to its end and holds no regular-file entry
\* named {os}-{arch}/helm, unTarZip returns nil, helm-{v} is not created, the
\* archive is removed, and no step of the call changes the cache directory.
C9_NoMatchLeavesCache == [] C9_ReturnsNilNoFile /\ [][C9_CacheUntouched]_vars

C9_Witness ==
    \E p \in Instances :
        /\ Len(trace[p]) > 0 /\ Last(p).op = "unTarZip" /\ ~Last(p).err
        /\ NoMatchArchive(opened[p])
        /\ \E i \in 1..Len(opened[p].arch.entries) :
               opened[p].arch.entries[i].path = HelmPath

\* p's Launcher executed a file that was there but not whole.
LaunchedTruncated(p) ==
    Launched(p) /\ launched[p].exists /\ ~launched[p].complete

====
